---- MODULE Spec2Model ----
(***************************************************************************)
(* RoboHack front end: the chat widget controller (static/script.js, and   *)
(* its typing-reveal variant) and the ambient scene renderer               *)
(* (static/threejs-bg.js), as one state machine.                           *)
(*                                                                         *)
(* Strings are sequences of one-character strings, so that trimming,       *)
(* concatenation and character-by-character reveal are computed.           *)
(***************************************************************************)
EXTENDS Integers, Sequences, FiniteSets, TLC

\* ------------------------------------------------------------- bounds
MaxSubmits == 2      \* submit events (click or Enter) per behaviour
MaxFrames == 3       \* display refreshes after the initial animate() call

\* ------------------------------------------------------------- strings
Whitespace == {" ", "\t"}

\* the texts the user types into the input: empty, whitespace only, a plain
\* word, a word wrapped in whitespace, words with whitespace inside
InputValues ==
    {<<>>, <<"\t", " ">>, <<"a">>, <<" ", "\t", "a", " ">>, <<"b", " ", "b">>}

RECURSIVE TrimStart(_)
TrimStart(s) ==
    IF s # <<>> /\ Head(s) \in Whitespace THEN TrimStart(Tail(s)) ELSE s

RECURSIVE TrimEnd(_)
TrimEnd(s) ==
    IF s # <<>> /\ s[Len(s)] \in Whitespace THEN TrimEnd(SubSeq(s, 1, Len(s) - 1)) ELSE s

\* a plausible slip: only leading whitespace is removed
TrimLeftOnly(s) == TrimStart(s)

\* String.prototype.trim
Trim(s) == TrimEnd(TrimStart(s))

ErrorPrefix == <<"E", "r", "r", "o", "r", ":", " ">>
DefaultErrorText == <<"S", "o", "m", "e", "t", "h", "i", "n", "g", " ", "w", "e", "n", "t", " ", "w", "r", "o", "n", "g">>
ConnErrorText ==
    <<"E", "r", "r", "o", "r", ":", " ", "C", "o", "u", "l", "d", " ", "n", "o", "t", " ",
      "c", "o", "n", "n", "e", "c", "t", " ", "t", "o", " ", "s", "e", "r", "v", "e", "r">>

\* ------------------------------------------------------------- /api/chat replies
\* an optional JSON field: absent, or present with a string value
Absent == [has |-> FALSE, val |-> <<>>]
Some(v) == [has |-> TRUE, val |-> v]

HelloText == <<"h", "i">>
BadInputText == <<"b", "a", "d">>

\* what reading and parsing the reply body can yield:
\*   "malformed": response.json() rejects;  "null": the JSON value null;
\*   "object": a JSON object with the fields of the endpoint's contract
ObjectBodies ==
    {[kind |-> "object", success |-> TRUE, response |-> r, error |-> Absent] :
        r \in {Absent, Some(<<>>), Some(HelloText)}}
    \cup
    {[kind |-> "object", success |-> FALSE, response |-> Absent, error |-> e] :
        e \in {Absent, Some(<<>>), Some(BadInputText)}}

MalformedBody == [kind |-> "malformed", success |-> FALSE, response |-> Absent, error |-> Absent]
NullBody == [kind |-> "null", success |-> FALSE, response |-> Absent, error |-> Absent]
Bodies == ObjectBodies \cup {MalformedBody, NullBody}

\* outcome of a request that has not settled / whose fetch() promise rejected
NoOutcome == [kind |-> "none", success |-> FALSE, response |-> Absent, error |-> Absent]
Rejected == [kind |-> "rejected", success |-> FALSE, response |-> Absent, error |-> Absent]

\* the status line of a reply: fetch() resolves whatever the status is
HttpStatuses == {200, 500}

\* ------------------------------------------------------------- state
VARIABLES
    inputVal,      \* searchInput.value
    loadingShow,   \* loading.classList contains 'show'
    respShow,      \* responseArea.classList contains 'show'
    respText,      \* responseArea.textContent
    reqs,          \* the handleSearch calls suspended at an await, by request number
    posted,        \* the message of every POST /api/chat issued, in order
    lastSettled,   \* number of the request whose handler finished last (0: none)
    submitCount    \* submit events delivered so far (click or Enter keypress)

VARIABLES
    calls,          \* every loader.load call made so far, per model, in order
    onLoadCalls,    \* times the onLoad callback of each model has run
    onErrorCalls,   \* times the onError callback of each model has run
    eyes,           \* the eyes array
    robot,          \* the robot holder
    sceneChildren,  \* scene.children, by kind of object
    pendingFrames,  \* callbacks registered with requestAnimationFrame, not yet run
    animateRuns,    \* executions of animate so far
    framesRendered  \* renderer.render calls so far

VARIABLES
    winSize,        \* window.innerWidth, window.innerHeight
    rendererSize,   \* the size given to renderer.setSize (the canvas's size)
    cameraAspect,   \* camera.aspect, as the fraction num / den
    resizePending,  \* the window was resized and its resize event is not yet delivered
    mouse           \* the pointer in normalized device coordinates, in thousandths

chatVars == <<inputVal, loadingShow, respShow, respText, reqs, posted, lastSettled, submitCount>>
VARIABLES
    tasks,          \* the typeText calls of the typing-reveal variant, by request number
    timers          \* the setTimeout callbacks of sleep() not yet run, in firing order

viewVars == <<winSize, rendererSize, cameraAspect, resizePending, mouse>>
sceneVars == <<calls, onLoadCalls, onErrorCalls, eyes, robot, sceneChildren, pendingFrames, animateRuns, framesRendered, viewVars>>
typeVars == <<tasks, timers>>
vars == <<chatVars, sceneVars, typeVars>>

ReqIds == 1..MaxSubmits
NoRequest == [st |-> "none", status |-> 0, outcome |-> NoOutcome]

\* the three pieces of UI state a handler continuation writes
UI == [loading |-> loadingShow, show |-> respShow, text |-> respText]

\* ------------------------------------------------------------- script.js
\* a plausible slip: the response text is shown without un-hiding the area
ShowSuccessHidden(data, ui) ==
    [loading |-> ui.loading, show |-> ui.show,
     text |-> IF data.response.has THEN data.response.val ELSE <<>>]

\* script.js 33-36: data.success is truthy
ShowSuccess(data, ui) ==
    [loading |-> ui.loading, show |-> TRUE,
     text |-> IF data.response.has THEN data.response.val ELSE <<>>]

\* a plausible slip: the error field is used without the default
ShowFailureNoDefault(data, ui) ==
    [loading |-> ui.loading, show |-> TRUE, text |-> ErrorPrefix \o data.error.val]

\* script.js 37-40: 'Error: ' + (data.error || 'Something went wrong')
ShowFailure(data, ui) ==
    [loading |-> ui.loading, show |-> TRUE,
     text |-> ErrorPrefix \o (IF data.error.has /\ data.error.val # <<>>
                              THEN data.error.val ELSE DefaultErrorText)]

\* a plausible slip: the catch block forgets to hide the loading indicator
CatchBlockKeepsLoading(ui) ==
    [loading |-> ui.loading, show |-> TRUE, text |-> ConnErrorText]

\* script.js 41-46: the catch block
CatchBlock(ui) ==
    [loading |-> FALSE, show |-> TRUE, text |-> ConnErrorText]

\* a plausible slip: the loading indicator is hidden on the success path only
AfterJsonFailureKeepsLoading(status, body, ui) ==
    IF body.kind = "malformed" THEN CatchBlock(ui)
    ELSE IF body.kind = "null" THEN CatchBlock(ui)
    ELSE IF body.success THEN ShowSuccess(body, [ui EXCEPT !.loading = FALSE])
    ELSE ShowFailure(body, ui)

\* script.js 28-46: the continuation after `await response.json()`.
\* The status of the reply is never read.  A malformed body rejects the
\* promise (catch block); the value null makes `data.success` throw after
\* loading was hidden (catch block as well).
AfterJson(status, body, ui) ==
    IF body.kind = "malformed" THEN CatchBlock(ui)
    ELSE LET hidden == [ui EXCEPT !.loading = FALSE]
         IN  IF body.kind = "null" THEN CatchBlock(hidden)
             ELSE IF body.success THEN ShowSuccess(body, hidden)
             ELSE ShowFailure(body, hidden)

SetUI(ui) ==
    /\ loadingShow' = ui.loading
    /\ respShow' = ui.show
    /\ respText' = ui.text

InitChat ==
    /\ inputVal = <<>>
    /\ loadingShow = FALSE
    /\ respShow = FALSE
    /\ respText = <<>>
    /\ reqs = [i \in ReqIds |-> NoRequest]
    /\ posted = <<>>
    /\ lastSettled = 0
    /\ submitCount = 0

\* the user edits the text input (the value handleSearch reads at line 8)
SetInput(v) ==
    /\ v # inputVal
    /\ inputVal' = v
    /\ UNCHANGED <<loadingShow, respShow, respText, reqs, posted, lastSettled, submitCount>>
    /\ UNCHANGED <<sceneVars, typeVars>>

\* a plausible slip: the empty-query guard is missing
HandleSearchNoGuard ==
    LET query == Trim(inputVal)
    IN  /\ inputVal' = <<>>
        /\ loadingShow' = TRUE
        /\ respShow' = FALSE
        /\ posted' = Append(posted, query)
        /\ reqs' = [reqs EXCEPT ![Len(posted) + 1] = [st |-> "fetch", status |-> 0, outcome |-> NoOutcome]]
        /\ UNCHANGED <<respText, lastSettled>>

\* script.js 7-26: handleSearch up to its first await
HandleSearch ==
    LET query == Trim(inputVal)
    IN  IF query = <<>>
        THEN UNCHANGED <<inputVal, loadingShow, respShow, respText, reqs, posted, lastSettled>>
        ELSE /\ inputVal' = <<>>
             /\ loadingShow' = TRUE
             /\ respShow' = FALSE
             /\ posted' = Append(posted, query)
             /\ reqs' = [reqs EXCEPT ![Len(posted) + 1] = [st |-> "fetch", status |-> 0, outcome |-> NoOutcome]]
             /\ UNCHANGED <<respText, lastSettled>>

\* script.js 50: the button's click listener
Click ==
    /\ submitCount < MaxSubmits
    /\ submitCount' = submitCount + 1
    /\ HandleSearch
    /\ UNCHANGED <<sceneVars, typeVars>>

Keys == {"Enter", "a"}

\* script.js 53-57: the input's keypress listener
Keypress(key) ==
    /\ submitCount < MaxSubmits
    /\ IF key = "Enter"
       THEN /\ submitCount' = submitCount + 1
            /\ HandleSearch
       ELSE UNCHANGED chatVars
    /\ UNCHANGED <<sceneVars, typeVars>>

\* script.js 20-26, 41-46: the fetch() promise settles: it rejects (network
\* failure) and the catch block runs, or it resolves with the reply's status
\* line and the handler goes on to `await response.json()`
FetchSettle(id, rejected, status) ==
    /\ reqs[id].st = "fetch"
    /\ IF rejected
       THEN /\ reqs' = [reqs EXCEPT ![id] = [st |-> "done", status |-> 0, outcome |-> Rejected]]
            /\ SetUI(CatchBlock(UI))
            /\ lastSettled' = id
       ELSE /\ reqs' = [reqs EXCEPT ![id] = [st |-> "json", status |-> status, outcome |-> NoOutcome]]
            /\ UNCHANGED <<loadingShow, respShow, respText, lastSettled>>
    /\ UNCHANGED <<inputVal, posted, submitCount>>
    /\ UNCHANGED <<sceneVars, typeVars>>

\* a plausible repair the code does not make: a sequencing token, so that the
\* reply to a request that is no longer the latest one is dropped
JsonSettleIgnoresStale(id, body) ==
    /\ reqs[id].st = "json"
    /\ reqs' = [reqs EXCEPT ![id] = [st |-> "done", status |-> reqs[id].status, outcome |-> body]]
    /\ IF id = Len(posted)
       THEN SetUI(AfterJson(reqs[id].status, body, UI))
       ELSE UNCHANGED <<loadingShow, respShow, respText>>
    /\ lastSettled' = id
    /\ UNCHANGED <<inputVal, posted, submitCount>>
    /\ UNCHANGED <<sceneVars, typeVars>>

\* a plausible slip: the loading indicator stays while another request is
\* still outstanding
JsonSettleWaitsForOthers(id, body) ==
    /\ reqs[id].st = "json"
    /\ reqs' = [reqs EXCEPT ![id] = [st |-> "done", status |-> reqs[id].status, outcome |-> body]]
    /\ LET ui == AfterJson(reqs[id].status, body, UI)
       IN  SetUI([ui EXCEPT !.loading = \E other \in ReqIds \ {id} : reqs[other].st \in {"fetch", "json"}])
    /\ lastSettled' = id
    /\ UNCHANGED <<inputVal, posted, submitCount>>
    /\ UNCHANGED <<sceneVars, typeVars>>

\* script.js 28-46: the response.json() promise settles with the body read
\* from the network and the rest of the handler runs to completion
JsonSettle(id, body) ==
    /\ reqs[id].st = "json"
    /\ reqs' = [reqs EXCEPT ![id] = [st |-> "done", status |-> reqs[id].status, outcome |-> body]]
    /\ SetUI(AfterJson(reqs[id].status, body, UI))
    /\ lastSettled' = id
    /\ UNCHANGED <<inputVal, posted, submitCount>>
    /\ UNCHANGED <<sceneVars, typeVars>>

NextChat ==
    \/ \E v \in InputValues : SetInput(v)
    \/ Click
    \/ \E key \in Keys : Keypress(key)
    \/ \E id \in ReqIds, status \in HttpStatuses : FetchSettle(id, FALSE, status)
    \/ \E id \in ReqIds : FetchSettle(id, TRUE, 0)
    \/ \E id \in ReqIds, body \in Bodies : JsonSettle(id, body)

\* ------------------------------------------------------------- threejs-bg.js
Models == {"eye", "robot"}

\* threejs-bg.js 41, 94
PrimaryPath(m) == IF m = "eye" THEN "static/anatomical_eye_ball.glb" ELSE "static/robot.glb"
\* threejs-bg.js 42, 95
FallbackPath(m) == IF m = "eye" THEN "anatomical_eye_ball.glb" ELSE "robot.glb"

\* threejs-bg.js 48: for (let i = 0; i < 20; i++)
EyeCount == 20

\* Math.random(), in hundredths; the generator's stream is fixed by its seed
RandValues == <<0, 50, 99>>
Seeds == {0, 1, 2}
DrawsPerEye == 10
RandomAt(seed, k) == RandValues[((seed + k) % Len(RandValues)) + 1]

\* threejs-bg.js 53-57: position.z = (Math.random() - 0.5) * 5 - 10, in
\* hundredths; it is the fourth draw made for an eye
EyeZ(seed, i) == (RandomAt(seed, (i - 1) * DrawsPerEye + 4) - 50) * 5 - 1000

\* an eye: its depth (position.z, in hundredths), the target of its last
\* lookAt (in hundredths) and the number of lookAt calls made on it
NewEye(seed, i) == [z |-> EyeZ(seed, i), looks |-> 0, target |-> [x |-> 0, y |-> 0, z |-> 0]]

\* a plausible slip: the loop runs while i <= 20
SpawnEyesOneMore(seed) ==
    /\ eyes' = eyes \o [i \in 1..(EyeCount + 1) |-> NewEye(seed, i)]
    /\ sceneChildren' = sceneChildren \o [i \in 1..(EyeCount + 1) |-> "eye"]
    /\ UNCHANGED robot

\* threejs-bg.js 43-78: onLoad of the eye model
SpawnEyes(seed) ==
    /\ eyes' = eyes \o [i \in 1..EyeCount |-> NewEye(seed, i)]
    /\ sceneChildren' = sceneChildren \o [i \in 1..EyeCount |-> "eye"]
    /\ UNCHANGED robot

\* threejs-bg.js 96-106: onLoad of the robot model
PlaceRobot ==
    /\ robot' = [loaded |-> TRUE, rotY |-> 0]
    /\ sceneChildren' = Append(sceneChildren, "robot")
    /\ UNCHANGED eyes

\* a plausible slip: the fallback load is given the retrying error callback
FallbackCallRetries(m) == [path |-> FallbackPath(m), result |-> "pending", onFail |-> "fallback"]

\* threejs-bg.js 28-31: the fallback load, whose error callback gives up
FallbackCall(m) == [path |-> FallbackPath(m), result |-> "pending", onFail |-> "giveUp"]

\* threejs-bg.js 26: the primary load, whose error callback tries the fallback
PrimaryCall(m) == [path |-> PrimaryPath(m), result |-> "pending", onFail |-> "fallback"]

\* threejs-bg.js 26, 28: a loader.load call ends in its success callback
LoadSucceeds(m, i, seed) ==
    /\ i \in DOMAIN calls[m]
    /\ calls[m][i].result = "pending"
    /\ calls' = [calls EXCEPT ![m][i].result = "ok"]
    /\ onLoadCalls' = [onLoadCalls EXCEPT ![m] = @ + 1]
    /\ IF m = "eye" THEN SpawnEyes(seed) ELSE PlaceRobot
    /\ UNCHANGED <<onErrorCalls, pendingFrames, animateRuns, framesRendered, viewVars>>
    /\ UNCHANGED <<chatVars, typeVars>>

\* threejs-bg.js 29-30, 79-81, 107-109: the fallback failed too; onError logs
GiveUp(m) ==
    /\ onErrorCalls' = [onErrorCalls EXCEPT ![m] = @ + 1]
    /\ UNCHANGED chatVars

\* threejs-bg.js 26-32: a loader.load call ends in its error callback
LoadFails(m, i) ==
    /\ i \in DOMAIN calls[m]
    /\ calls[m][i].result = "pending"
    /\ IF calls[m][i].onFail = "fallback"
       THEN /\ calls' = [calls EXCEPT ![m] = Append([@ EXCEPT ![i].result = "error"], FallbackCall(m))]
            /\ UNCHANGED <<onErrorCalls, chatVars>>
       ELSE /\ calls' = [calls EXCEPT ![m][i].result = "error"]
            /\ GiveUp(m)
    /\ UNCHANGED <<onLoadCalls, eyes, robot, sceneChildren, pendingFrames, animateRuns, framesRendered, viewVars, typeVars>>

Abs(n) == IF n < 0 THEN -n ELSE n

\* threejs-bg.js 13: camera.position.z = 30, in hundredths
CameraZ == 3000
\* threejs-bg.js 8: tan(75 degrees / 2), in thousandths
TanHalfFov == 767
\* threejs-bg.js 174: eye.position.z + 3, in hundredths
PlaneOffset == 300

\* threejs-bg.js 147, 172: raycaster.ray.origin is the camera's position
RayOrigin == [x |-> 0, y |-> 0, z |-> CameraZ]

\* threejs-bg.js 147, 173: raycaster.ray.direction, in thousandths: the
\* pointer unprojected through the camera, which looks down the -z axis.
\* The vector is kept unnormalized (z = -1000): the intersection below does
\* not depend on its length.
RayDirection(m, aspect) ==
    [x |-> (((m.x * TanHalfFov) \div 1000) * aspect.num) \div aspect.den,
     y |-> (m.y * TanHalfFov) \div 1000,
     z |-> -1000]

\* threejs-bg.js 177: Math.abs(rayDir.z) > 1e-6 for the normalized direction,
\* whose length is bounded here by the sum of its components' magnitudes
NotParallel(d) == Abs(d.z) * 1000000 > Abs(d.x) + Abs(d.y) + Abs(d.z)

\* threejs-bg.js 174-179: t = (eyeZ - rayOrigin.z) / rayDir.z and
\* target = rayDir * t + rayOrigin, with eyeZ = eye.position.z + 3
LookAtTarget(eye, o, d) ==
    LET eyeZ == eye.z + PlaneOffset
    IN  [x |-> o.x + (d.x * (eyeZ - o.z)) \div d.z,
         y |-> o.y + (d.y * (eyeZ - o.z)) \div d.z,
         z |-> o.z + (d.z * (eyeZ - o.z)) \div d.z]

\* threejs-bg.js 155-182: the per-eye part of a frame
UpdateEye(eye, o, d) ==
    IF NotParallel(d)
    THEN [eye EXCEPT !.target = LookAtTarget(eye, o, d), !.looks = @ + 1]
    ELSE eye

\* threejs-bg.js 147-182: what a frame does to the robot and to the eyes
FrameUpdate ==
    /\ robot' = IF robot.loaded THEN [robot EXCEPT !.rotY = @ + 1] ELSE robot
    /\ eyes' = [i \in DOMAIN eyes |-> UpdateEye(eyes[i], RayOrigin, RayDirection(mouse, cameraAspect))]

\* a plausible slip: `if (robot)` is missing, so that a frame run while the
\* robot holder is null throws after scheduling the next frame, before rendering
AnimateNoRobotGuard ==
    /\ pendingFrames > 0
    /\ animateRuns < MaxFrames + 1
    /\ pendingFrames' = (pendingFrames - 1) + 1
    /\ animateRuns' = animateRuns + 1
    /\ IF robot.loaded
       THEN FrameUpdate /\ framesRendered' = framesRendered + 1
       ELSE UNCHANGED <<robot, eyes, framesRendered>>
    /\ UNCHANGED <<calls, onLoadCalls, onErrorCalls, sceneChildren, viewVars>>
    /\ UNCHANGED <<chatVars, typeVars>>

\* a plausible slip: the next frame is requested only while a model is there
AnimateStopsWhenEmpty ==
    /\ pendingFrames > 0
    /\ animateRuns < MaxFrames + 1
    /\ pendingFrames' = (pendingFrames - 1) + (IF robot.loaded \/ eyes # <<>> THEN 1 ELSE 0)
    /\ animateRuns' = animateRuns + 1
    /\ FrameUpdate
    /\ framesRendered' = framesRendered + 1
    /\ UNCHANGED <<calls, onLoadCalls, onErrorCalls, sceneChildren, viewVars>>
    /\ UNCHANGED <<chatVars, typeVars>>

\* threejs-bg.js 142-185: one run of the frame callback: it schedules the
\* next run, turns the robot if there is one (in thousandths of a radian),
\* turns every eye to the pointer's ray and renders
Animate ==
    /\ pendingFrames > 0
    /\ animateRuns < MaxFrames + 1
    /\ pendingFrames' = (pendingFrames - 1) + 1
    /\ animateRuns' = animateRuns + 1
    /\ FrameUpdate
    /\ framesRendered' = framesRendered + 1
    /\ UNCHANGED <<calls, onLoadCalls, onErrorCalls, sceneChildren, viewVars>>
    /\ UNCHANGED <<chatVars, typeVars>>

\* the sizes the browser window takes
ViewportSizes == {[w |-> 800, h |-> 600], [w |-> 600, h |-> 800]}

\* the browser resizes the window; the resize event is delivered later
WindowResized(size) ==
    /\ size # winSize
    /\ winSize' = size
    /\ resizePending' = TRUE
    /\ UNCHANGED <<rendererSize, cameraAspect, mouse>>
    /\ UNCHANGED <<calls, onLoadCalls, onErrorCalls, eyes, robot, sceneChildren, pendingFrames, animateRuns, framesRendered>>
    /\ UNCHANGED <<chatVars, typeVars>>

\* a plausible slip: the renderer is resized but the camera keeps its aspect
OnResizeKeepsAspect ==
    /\ resizePending
    /\ resizePending' = FALSE
    /\ rendererSize' = winSize
    /\ UNCHANGED <<winSize, cameraAspect, mouse>>
    /\ UNCHANGED <<calls, onLoadCalls, onErrorCalls, eyes, robot, sceneChildren, pendingFrames, animateRuns, framesRendered>>
    /\ UNCHANGED <<chatVars, typeVars>>

\* threejs-bg.js 122-126: the resize listener
OnResize ==
    /\ resizePending
    /\ resizePending' = FALSE
    /\ cameraAspect' = [num |-> winSize.w, den |-> winSize.h]
    /\ rendererSize' = winSize
    /\ UNCHANGED <<winSize, mouse>>
    /\ UNCHANGED <<calls, onLoadCalls, onErrorCalls, eyes, robot, sceneChildren, pendingFrames, animateRuns, framesRendered>>
    /\ UNCHANGED <<chatVars, typeVars>>

\* threejs-bg.js 129-135: updateMouseFromEvent; the canvas sits at the
\* window's origin and has the renderer's size
MouseFromEvent(event) ==
    [x |-> (2000 * event.clientX) \div rendererSize.w - 1000,
     y |-> 1000 - (2000 * event.clientY) \div rendererSize.h]

\* the places of the window a pointer event comes from
PointerEvents ==
    {[clientX |-> 0, clientY |-> 0], [clientX |-> winSize.w \div 2, clientY |-> winSize.h \div 2]}

\* threejs-bg.js 136: the mousemove listener
MouseMove(event) ==
    /\ mouse' = MouseFromEvent(event)
    /\ UNCHANGED <<winSize, rendererSize, cameraAspect, resizePending>>
    /\ UNCHANGED <<calls, onLoadCalls, onErrorCalls, eyes, robot, sceneChildren, pendingFrames, animateRuns, framesRendered>>
    /\ UNCHANGED <<chatVars, typeVars>>

\* threejs-bg.js 137-139: the touchmove listener
TouchMove(touches) ==
    /\ mouse' = IF Len(touches) > 0 THEN MouseFromEvent(touches[1]) ELSE mouse
    /\ UNCHANGED <<winSize, rendererSize, cameraAspect, resizePending>>
    /\ UNCHANGED <<calls, onLoadCalls, onErrorCalls, eyes, robot, sceneChildren, pendingFrames, animateRuns, framesRendered>>
    /\ UNCHANGED <<chatVars, typeVars>>

\* threejs-bg.js 7-119, 187: the module has been evaluated: both loads are
\* under way, the lights are in the scene and animate() has run once
InitScene ==
    /\ calls = [m \in Models |-> <<PrimaryCall(m)>>]
    /\ onLoadCalls = [m \in Models |-> 0]
    /\ onErrorCalls = [m \in Models |-> 0]
    /\ eyes = <<>>
    /\ robot = [loaded |-> FALSE, rotY |-> 0]
    /\ sceneChildren = <<"ambientLight", "pointLight">>
    /\ pendingFrames = 1
    /\ animateRuns = 1
    /\ framesRendered = 1
    /\ winSize = [w |-> 800, h |-> 600]
    /\ rendererSize = winSize
    /\ cameraAspect = [num |-> winSize.w, den |-> winSize.h]
    /\ resizePending = FALSE
    /\ mouse = [x |-> 0, y |-> 0]

NextScene ==
    \/ \E m \in Models, seed \in Seeds : \E i \in DOMAIN calls[m] : LoadSucceeds(m, i, seed)
    \/ \E m \in Models : \E i \in DOMAIN calls[m] : LoadFails(m, i)
    \/ Animate

\* the scene with the window's events: resizes, pointer and touch moves
NextView ==
    \/ NextScene
    \/ \E size \in ViewportSizes : WindowResized(size)
    \/ OnResize
    \/ \E event \in PointerEvents : MouseMove(event)
    \/ \E event \in PointerEvents : TouchMove(<<event>>)
    \/ TouchMove(<<>>)

\* ------------------------------------------------------------- typing-reveal variant
NoTask == [st |-> "none", i |-> 0, text |-> <<>>]

InitType ==
    /\ tasks = [id \in ReqIds |-> NoTask]
    /\ timers = <<>>

\* a plausible slip: the element is not cleared before the first character
TypeTextBeginNoClear(id, text) ==
    /\ respText' = IF Len(text) > 0 THEN respText \o <<text[1]>> ELSE respText
    /\ tasks' = [tasks EXCEPT ![id] = IF Len(text) > 0
                                       THEN [st |-> "typing", i |-> 1, text |-> text]
                                       ELSE [st |-> "done", i |-> 0, text |-> text]]
    /\ timers' = IF Len(text) > 0 THEN Append(timers, id) ELSE timers

\* part_000 7-12: typeText up to its first await: the element is cleared;
\* if the text is not empty its first character is appended and sleep()
\* sets a timer; if it is empty the loop is not entered and the call ends
TypeTextBegin(id, text) ==
    /\ respText' = IF Len(text) > 0 THEN <<text[1]>> ELSE <<>>
    /\ tasks' = [tasks EXCEPT ![id] = IF Len(text) > 0
                                       THEN [st |-> "typing", i |-> 1, text |-> text]
                                       ELSE [st |-> "done", i |-> 0, text |-> text]]
    /\ timers' = IF Len(text) > 0 THEN Append(timers, id) ELSE timers

\* part_000 7, 10-14, 50-52: the oldest timer fires (all delays are equal, so
\* timers fire in the order they were set): i++, then either the next
\* character is appended to whatever the element holds and a new timer is
\* set, or the loop ends, typeText returns and the handler awaiting it ends
TimerFire ==
    /\ timers # <<>>
    /\ LET id == Head(timers)
           t == tasks[id]
       IN  IF t.i < Len(t.text)
           THEN /\ respText' = respText \o <<t.text[t.i + 1]>>
                /\ tasks' = [tasks EXCEPT ![id].i = @ + 1]
                /\ timers' = Append(Tail(timers), id)
                /\ UNCHANGED <<reqs, lastSettled>>
           ELSE /\ tasks' = [tasks EXCEPT ![id].st = "done"]
                /\ timers' = Tail(timers)
                /\ reqs' = IF reqs[id].st = "reveal" THEN [reqs EXCEPT ![id].st = "done"] ELSE reqs
                /\ lastSettled' = IF reqs[id].st = "reveal" THEN id ELSE lastSettled
                /\ UNCHANGED respText
    /\ UNCHANGED <<inputVal, loadingShow, respShow, posted, submitCount>>
    /\ UNCHANGED sceneVars

\* part_000 47-50: the catch block, up to the first await inside typeText
CatchReveal(id, outcome) ==
    /\ reqs' = [reqs EXCEPT ![id] = [st |-> "reveal", status |-> reqs[id].status, outcome |-> outcome]]
    /\ loadingShow' = FALSE
    /\ respShow' = TRUE
    /\ TypeTextBegin(id, ConnErrorText)
    /\ UNCHANGED lastSettled

\* part_000 28-33, 47-52: the fetch() promise of the variant settles
FetchSettleReveal(id, rejected, status) ==
    /\ reqs[id].st = "fetch"
    /\ IF rejected
       THEN CatchReveal(id, Rejected)
       ELSE /\ reqs' = [reqs EXCEPT ![id] = [st |-> "json", status |-> status, outcome |-> NoOutcome]]
            /\ UNCHANGED <<loadingShow, respShow, respText, lastSettled, typeVars>>
    /\ UNCHANGED <<inputVal, posted, submitCount>>
    /\ UNCHANGED sceneVars

\* part_000 35-52: the response.json() promise of the variant settles.  On a
\* parsed object only the loading indicator is hidden: the success branch
\* logs the response and the failure branch is empty (the reveals are
\* commented out).  A malformed body, or the value null, ends in the catch block.
JsonSettleReveal(id, body) ==
    /\ reqs[id].st = "json"
    /\ IF body.kind \in {"malformed", "null"}
       THEN CatchReveal(id, body)
       ELSE /\ reqs' = [reqs EXCEPT ![id] = [st |-> "done", status |-> reqs[id].status, outcome |-> body]]
            /\ loadingShow' = FALSE
            /\ lastSettled' = id
            /\ UNCHANGED <<respShow, respText, typeVars>>
    /\ UNCHANGED <<inputVal, posted, submitCount>>
    /\ UNCHANGED sceneVars

HelloBody == [kind |-> "object", success |-> TRUE, response |-> Some(HelloText), error |-> Absent]
FailureBody == [kind |-> "object", success |-> FALSE, response |-> Absent, error |-> Some(BadInputText)]

\* the variant's widget, driven with one query text
NextType ==
    \/ SetInput(<<"a">>)
    \/ Click
    \/ Keypress("Enter")
    \/ \E id \in ReqIds : FetchSettleReveal(id, FALSE, 200)
    \/ \E id \in ReqIds : FetchSettleReveal(id, TRUE, 0)
    \/ \E id \in ReqIds, body \in {HelloBody, FailureBody, MalformedBody, NullBody} : JsonSettleReveal(id, body)
    \/ TimerFire

\* a typeText call on its own: the texts it is given and what the element
\* holds when it is called
RevealTexts ==
    {<<>>, HelloText, BadInputText, ConnErrorText, DefaultErrorText,
     ErrorPrefix \o DefaultErrorText, ErrorPrefix \o BadInputText}

\* part_000 8: typeText(el, text) is called
CallTypeText(id) ==
    /\ tasks[id].st = "called"
    /\ TypeTextBegin(id, tasks[id].text)
    /\ UNCHANGED <<inputVal, loadingShow, respShow, reqs, posted, lastSettled, submitCount>>
    /\ UNCHANGED sceneVars

InitTypeText ==
    /\ InitScene
    /\ inputVal = <<>>
    /\ loadingShow = FALSE
    /\ respShow = TRUE
    /\ respText \in {<<>>, HelloText, ConnErrorText}
    /\ reqs = [i \in ReqIds |-> NoRequest]
    /\ posted = <<>>
    /\ lastSettled = 0
    /\ submitCount = 0
    /\ \E text \in RevealTexts :
           tasks = [id \in ReqIds |-> IF id = 1 THEN [st |-> "called", i |-> 0, text |-> text] ELSE NoTask]
    /\ timers = <<>>

NextTypeText ==
    \/ CallTypeText(1)
    \/ TimerFire

Init == InitChat /\ InitScene /\ InitType

\* the chat widget alone
SpecChat == Init /\ [][NextChat]_vars

\* the scene renderer alone
SpecScene == Init /\ [][NextScene]_vars

\* the scene renderer with the window's events
SpecView == Init /\ [][NextView]_vars

\* the typing-reveal variant of the chat widget
SpecType == Init /\ [][NextType]_vars

\* one typeText call, run to its end: timers that are due do fire
SpecTypeText == InitTypeText /\ [][NextTypeText]_vars /\ WF_vars(NextTypeText)

\* the page: both scripts run on one event loop.  The widget is driven here
\* with one query text and two kinds of reply.
PageChat ==
    \/ SetInput(<<"a">>)
    \/ Click
    \/ \E id \in ReqIds : FetchSettle(id, FALSE, 200)
    \/ \E id \in ReqIds : FetchSettle(id, TRUE, 0)
    \/ \E id \in ReqIds : JsonSettle(id, HelloBody)

Next == PageChat \/ NextScene
Spec == Init /\ [][Next]_vars

\* ------------------------------------------------------------- properties
IsBlank(s) == \A i \in 1..Len(s) : s[i] \in Whitespace

\* the text between the first and the last non-whitespace character
Core(s) ==
    LET idx == {i \in 1..Len(s) : s[i] \notin Whitespace}
        lo == CHOOSE i \in idx : \A j \in idx : i <= j
        hi == CHOOSE i \in idx : \A j \in idx : i >= j
    IN  IF idx = {} THEN <<>> ELSE SubSeq(s, lo, hi)

Is2xx(status) == status >= 200 /\ status <= 299

SubmitStep == submitCount' # submitCount
Issued == 1..Len(posted)
AllSettled == \A id \in Issued : reqs[id].st = "done"

\* the text a settled request's reply stands for
ExpectedText(r) ==
    IF r.outcome.kind \in {"rejected", "malformed", "null"} THEN ConnErrorText
    ELSE IF r.outcome.success
         THEN (IF r.outcome.response.has THEN r.outcome.response.val ELSE <<>>)
         ELSE IF r.outcome.error.has /\ r.outcome.error.val # <<>>
              THEN ErrorPrefix \o r.outcome.error.val
              ELSE ErrorPrefix \o DefaultErrorText

\* C1: a submit with an empty or whitespace-only input issues no request and
\* leaves the input, the loading indicator and the response area as they were
C1_BlankSubmitNoEffect ==
    [][(SubmitStep /\ IsBlank(inputVal))
        => UNCHANGED <<inputVal, loadingShow, respShow, respText, reqs, posted>>]_vars

\* a whitespace-only submit was made after a reply had been displayed
C1_Witness ==
    /\ submitCount = 2
    /\ Len(posted) = 1
    /\ inputVal = <<"\t", " ">>
    /\ respShow
    /\ respText = HelloText

\* C2: after a single non-empty submit whose reply is {success: true,
\* response: r}, the response area is visible with text r, loading hidden
C2_SuccessShown ==
    (/\ Len(posted) = 1
     /\ reqs[1].st = "done"
     /\ reqs[1].outcome.kind = "object"
     /\ reqs[1].outcome.success
     /\ reqs[1].outcome.response.has)
    => (respShow /\ respText = reqs[1].outcome.response.val /\ ~loadingShow)

C2_Witness ==
    /\ Len(posted) = 1
    /\ reqs[1].st = "done"
    /\ reqs[1].outcome = HelloBody
    /\ respShow
    /\ respText = <<"h", "i">>

\* C3: when a reply with success false is handled, the response area becomes
\* visible with "Error: " followed by the error field, or with "Error:
\* Something went wrong" when the field is absent or empty; loading is hidden
C3_FailureShown ==
    [][\A id \in ReqIds :
        (/\ reqs[id].st = "json"
         /\ reqs'[id].st = "done"
         /\ reqs'[id].outcome.kind = "object"
         /\ ~reqs'[id].outcome.success)
        => (/\ respShow'
            /\ ~loadingShow'
            /\ respText' = IF reqs'[id].outcome.error \in {Absent, Some(<<>>)}
                           THEN <<"E", "r", "r", "o", "r", ":", " ">> \o DefaultErrorText
                           ELSE <<"E", "r", "r", "o", "r", ":", " ">> \o reqs'[id].outcome.error.val)]_vars

\* both shapes were displayed: the default text now, the error field before
C3_Witness ==
    /\ Len(posted) = 2
    /\ lastSettled = 2
    /\ reqs[1].st = "done" /\ reqs[1].outcome.error = Some(BadInputText)
    /\ reqs[2].st = "done" /\ reqs[2].outcome.kind = "object"
    /\ ~reqs[2].outcome.success /\ reqs[2].outcome.error = Absent
    /\ respShow
    /\ respText = ErrorPrefix \o DefaultErrorText

\* C4: right after the handler of a rejected request has run, the response
\* area is visible with "Error: Could not connect to server" and the loading
\* indicator is hidden, whatever else is outstanding
C4_RejectedShown ==
    [][\A id \in ReqIds :
        (reqs[id].st = "fetch" /\ reqs'[id].st = "done" /\ reqs'[id].outcome.kind = "rejected")
        => (/\ respShow'
            /\ ~loadingShow'
            /\ respText' = <<"E", "r", "r", "o", "r", ":", " ", "C", "o", "u", "l", "d", " ",
                             "n", "o", "t", " ", "c", "o", "n", "n", "e", "c", "t", " ",
                             "t", "o", " ", "s", "e", "r", "v", "e", "r">>)]_vars

\* the first request was rejected while the second was still outstanding
C4_Witness ==
    /\ Len(posted) = 2
    /\ reqs[1].st = "done" /\ reqs[1].outcome.kind = "rejected"
    /\ reqs[2].st \in {"fetch", "json"}
    /\ lastSettled = 1
    /\ respShow
    /\ ~loadingShow

\* C5 (as claimed): whenever the reply displayed last had a non-2xx status or
\* a body that is not parseable JSON, the response area shows "Error: Could
\* not connect to server"
C5_Non2xxIsConnError ==
    \A id \in ReqIds :
        (/\ lastSettled = id
         /\ reqs[id].st = "done"
         /\ reqs[id].outcome.kind # "rejected"
         /\ (~Is2xx(reqs[id].status) \/ reqs[id].outcome.kind = "malformed"))
        => respText = ConnErrorText

\* C6: a submit whose input is not blank clears the input, shows loading,
\* hides the response area and issues exactly one POST carrying the trimmed
\* text, all in one step; no other step issues a request
C6_SubmitIssuesOneRequest ==
    [][LET n == Len(posted)
       IN  IF SubmitStep /\ ~IsBlank(inputVal)
           THEN /\ inputVal' = <<>>
                /\ loadingShow'
                /\ ~respShow'
                /\ posted' = Append(posted, Core(inputVal))
                /\ reqs[n + 1].st = "none" /\ reqs'[n + 1].st = "fetch"
                /\ \A id \in ReqIds \ {n + 1} : reqs'[id] = reqs[id]
           ELSE posted' = posted /\ \A id \in ReqIds : reqs[id].st = "none" => reqs'[id].st = "none"]_vars

\* two submits, one of them wrapped in whitespace, issued two requests
C6_Witness ==
    /\ submitCount = 2
    /\ posted = << <<"b", " ", "b">>, <<"a">> >>
    /\ reqs[1].st = "done" /\ reqs[2].st = "fetch"
    /\ inputVal = <<>>
    /\ loadingShow
    /\ ~respShow

\* C7: once every request has settled, the response area shows the text of
\* the reply that settled last, whatever the order of submission
C7_LastSettledWins ==
    (AllSettled /\ lastSettled # 0) => respText = ExpectedText(reqs[lastSettled])

\* the second request was rejected first, the reply to the first came after
C7_Witness ==
    /\ Len(posted) = 2
    /\ AllSettled
    /\ lastSettled = 1
    /\ reqs[1].outcome = HelloBody
    /\ reqs[2].outcome = Rejected
    /\ respText = HelloText

\* C8 (as claimed): once every request has settled, the response area shows
\* the text of the reply to the request submitted last
C8_LatestSubmittedWins ==
    (AllSettled /\ Len(posted) > 0) => respText = ExpectedText(reqs[Len(posted)])

\* C9: per model: the primary path is loaded exactly once and first; the
\* fallback path is loaded once if the primary load failed and never
\* otherwise; there is no third load; onLoad runs once per successful load,
\* hence at most once; onError has run once exactly when both loads failed
C9_OneFallbackThenGiveUp ==
    \A m \in Models :
        LET cs == calls[m]
            at(path) == {i \in DOMAIN cs : cs[i].path = path}
            with(result) == {i \in DOMAIN cs : cs[i].result = result}
            primaryFailed == cs[1].result = "error"
            fallbackFailed == Len(cs) >= 2 /\ cs[2].result = "error"
        IN  /\ Len(cs) \in {1, 2}
            /\ cs[1].path = PrimaryPath(m)
            /\ Cardinality(at(PrimaryPath(m))) = 1
            /\ Cardinality(at(FallbackPath(m))) = IF primaryFailed THEN 1 ELSE 0
            /\ onLoadCalls[m] = Cardinality(with("ok"))
            /\ onLoadCalls[m] <= 1
            /\ onErrorCalls[m] = IF primaryFailed /\ fallbackFailed THEN 1 ELSE 0

\* the eye model failed on both paths, the robot model loaded from its fallback
C9_Witness ==
    /\ Len(calls["eye"]) = 2
    /\ calls["eye"][1].result = "error" /\ calls["eye"][2].result = "error"
    /\ onErrorCalls["eye"] = 1 /\ onLoadCalls["eye"] = 0
    /\ Len(calls["robot"]) = 2
    /\ calls["robot"][1].result = "error" /\ calls["robot"][2].result = "ok"
    /\ onLoadCalls["robot"] = 1 /\ onErrorCalls["robot"] = 0

BothFailed(m) ==
    /\ Len(calls[m]) = 2
    /\ calls[m][1].result = "error"
    /\ calls[m][2].result = "error"

InScene(kind) == \E i \in DOMAIN sceneChildren : sceneChildren[i] = kind

\* C10: once both loads of a model have failed its object never appears
\* (no eyes, or no robot, in the holder or in the scene); every run of the
\* frame callback still renders and leaves the next one scheduled; and the
\* step in which the failure is reported changes nothing of the chat widget
C10_LoadFailureNonFatal ==
    /\ [](/\ BothFailed("eye") => (eyes = <<>> /\ ~InScene("eye"))
          /\ BothFailed("robot") => (~robot.loaded /\ ~InScene("robot"))
          /\ framesRendered = animateRuns
          /\ pendingFrames = 1)
    /\ [][(onErrorCalls' # onErrorCalls)
            => UNCHANGED <<chatVars, eyes, robot, sceneChildren, pendingFrames, framesRendered>>]_vars

\* both models failed while a reply was on display, and frames kept coming
C10_Witness ==
    /\ BothFailed("eye")
    /\ BothFailed("robot")
    /\ framesRendered = MaxFrames + 1
    /\ respShow /\ respText = HelloText
    /\ \E id \in ReqIds : reqs[id].st = "fetch"

\* C11: the eyes array holds no objects or exactly 20, and once it holds 20
\* no load callback, frame, pointer event or resize event changes its length
C11_EyeCountFixed ==
    /\ [](Len(eyes) \in {0, 20})
    /\ [][Len(eyes) = 20 => Len(eyes') = 20]_vars

\* the eyes came from the fallback load and have lived through frames, a
\* pointer move and a resize
C11_Witness ==
    /\ Len(eyes) = 20
    /\ Len(calls["eye"]) = 2
    /\ animateRuns = MaxFrames + 1
    /\ \A i \in DOMAIN eyes : eyes[i].looks >= 2
    /\ mouse # [x |-> 0, y |-> 0]
    /\ rendererSize = [w |-> 600, h |-> 800]

\* C12 (as claimed): the target of every lookAt made on an eye lies on the
\* plane at that eye's own depth: target.z equals eye.position.z
C12_TargetOnEyePlane ==
    \A i \in DOMAIN eyes : eyes[i].looks > 0 => eyes[i].target.z = eyes[i].z

\* C13: once the resize event of the latest window size has been handled,
\* the renderer's width and height are the window's inner width and height
\* and the camera's aspect is that width divided by that height
C13_ResizeMatchesViewport ==
    ~resizePending =>
        /\ rendererSize.w = winSize.w
        /\ rendererSize.h = winSize.h
        /\ cameraAspect.num * winSize.h = cameraAspect.den * winSize.w

\* the window went to 600 x 800 and the listener has followed it
C13_Witness ==
    /\ ~resizePending
    /\ winSize = [w |-> 600, h |-> 800]
    /\ rendererSize = [w |-> 600, h |-> 800]
    /\ cameraAspect = [num |-> 600, den |-> 800]
    /\ animateRuns > 1

\* C17: exactly one frame callback is pending at all times; every run of
\* animate renders once and leaves exactly one callback pending; no other
\* step touches the pending callbacks; the next frame can always run,
\* whether or not the models have loaded
C17_FrameLoopNeverStops ==
    /\ [](/\ pendingFrames = 1
          /\ framesRendered = animateRuns
          /\ animateRuns <= MaxFrames => ENABLED Animate)
    /\ [][IF animateRuns' # animateRuns
          THEN /\ animateRuns' = animateRuns + 1
               /\ framesRendered' = framesRendered + 1
               /\ pendingFrames' = 1
          ELSE pendingFrames' = pendingFrames /\ framesRendered' = framesRendered]_vars

\* every frame of the run was rendered although neither model ever loaded
C17_Witness ==
    /\ animateRuns = MaxFrames + 1
    /\ framesRendered = MaxFrames + 1
    /\ pendingFrames = 1
    /\ ~robot.loaded
    /\ eyes = <<>>
    /\ BothFailed("robot")

\* C14 (as claimed): in the typing-reveal variant, once the handler of a
\* single submit has ended on the reply {success: true, response: r}, the
\* response area is visible with text exactly r and loading is hidden
C14_SuccessRevealed ==
    (/\ Len(posted) = 1
     /\ reqs[1].st = "done"
     /\ reqs[1].outcome.kind = "object"
     /\ reqs[1].outcome.success
     /\ reqs[1].outcome.response.has)
    => /\ ~loadingShow
       /\ respShow
       /\ respText = reqs[1].outcome.response.val

\* C15 (as claimed): in the typing-reveal variant, once every submitted
\* request was rejected and every reveal has finished, the response area
\* shows exactly "Error: Could not connect to server"
C15_RejectedRevealExact ==
    (/\ Len(posted) > 0
     /\ AllSettled
     /\ \A id \in Issued : reqs[id].outcome = Rejected
     /\ timers = <<>>)
    => respText = ConnErrorText

\* C16: one typeText call with no other writer: the call clears the element
\* before its first character; after k characters the element holds exactly
\* the first k characters of the text; each step appends at most one
\* character and a step that appends none ends the call; the call ends,
\* with the element holding exactly the text; an empty text ends the call
\* at once with the element empty
C16_TypeTextReveals ==
    /\ [](LET t == tasks[1]
          IN  /\ t.st = "typing" => /\ t.i \in 1..Len(t.text)
                                    /\ respText = SubSeq(t.text, 1, t.i)
                                    /\ timers = <<1>>
              /\ t.st = "done" => /\ t.i = Len(t.text)
                                  /\ respText = t.text
                                  /\ timers = <<>>)
    /\ [][LET t == tasks[1]
          IN  /\ t.st = "called" =>
                     respText' = SubSeq(t.text, 1, IF Len(t.text) > 0 THEN 1 ELSE 0)
              /\ (t.st = "called" /\ t.text = <<>>) =>
                     (tasks'[1].st = "done" /\ respText' = <<>>)
              /\ tasks'[1].i \in {t.i, t.i + 1}
              /\ tasks'[1].i = t.i => tasks'[1].st = "done"]_vars
    /\ <>(tasks[1].st = "done")

\* the whole connection-error text was revealed, one character at a time
C16_Witness ==
    /\ tasks[1].st = "done"
    /\ tasks[1].text = ConnErrorText
    /\ tasks[1].i = Len(ConnErrorText)
    /\ respText = ConnErrorText
    /\ timers = <<>>

Outstanding == {id \in Issued : reqs[id].st \in {"fetch", "json"}}

\* C18: if the loading indicator is shown, at least one request is still
\* outstanding; when no request is outstanding the loading indicator is
\* hidden and, if a request was ever issued, the response area is visible
C18_LoadingImpliesOutstanding ==
    /\ loadingShow => Outstanding # {}
    /\ Outstanding = {} => /\ ~loadingShow
                           /\ Len(posted) > 0 => respShow

\* two requests were issued and both have been answered
C18_Witness ==
    /\ Len(posted) = 2
    /\ Outstanding = {}
    /\ ~loadingShow
    /\ respShow
    /\ reqs[1].outcome = Rejected
    /\ reqs[2].outcome.kind = "object"

\* C19: the step in which a request is answered (success, failure or
\* rejection) hides the loading indicator and shows the response area with
\* that answer's text, whatever else is outstanding; and a step that is
\* neither a submit nor an answer leaves all three as they were, so they
\* stay so until the next answer or submit
C19_AnyArrivalHidesLoading ==
    [][/\ \A id \in ReqIds :
              (reqs[id].st # "done" /\ reqs'[id].st = "done")
              => /\ ~loadingShow'
                 /\ respShow'
                 /\ respText' = ExpectedText(reqs'[id])
       /\ (~SubmitStep /\ \A id \in ReqIds : (reqs'[id].st = "done") = (reqs[id].st = "done"))
              => UNCHANGED <<loadingShow, respShow, respText>>]_vars

\* two overlapping submissions, the answer to the first has arrived, the
\* second is still outstanding
C19_Witness ==
    /\ Len(posted) = 2
    /\ lastSettled = 1
    /\ reqs[1].outcome = HelloBody
    /\ reqs[2].st \in {"fetch", "json"}
    /\ ~loadingShow
    /\ respShow
    /\ respText = HelloText
====
